---- MODULE Spec2Model ----
(***************************************************************************)
(* Auto Contractive Map (class acm of src/ac-maps/train/train.py).         *)
(*                                                                         *)
(* Numbers.  The program computes in float64 (IEEE 754 binary64, rounding  *)
(* to nearest, ties to even) with np.seterr('raise').  The model computes   *)
(* the same values: a float is <<s, e, M>> with sign s (0 or 1), exponent  *)
(* e in -1074 .. 971 and mantissa M, four limbs of 14 bits with the least  *)
(* significant first, and stands for                                       *)
(*    (-1)^s * (M[1] + M[2]*2^14 + M[3]*2^28 + M[4]*2^42) * 2^e            *)
(* where the mantissa has 53 bits (M[4] >= 1024) unless e = -1074.         *)
(* A first component of 2 or 3 marks an infinity (the result of an         *)
(* overflow), of 4 or 5 a result delivered with the underflow flag         *)
(* raised, and Fault is the outcome of an operation that raised            *)
(* FloatingPointError.                                                     *)
(***************************************************************************)
EXTENDS Integers, Sequences, FiniteSets, TLC

\* ------------------------------------------------------------- bounds
\* Rows of a generated training set (the fixtures' 1000).
NSamples == 2
\* Number of distinct states of the random generator the fixtures start from.
NumSeeds == 2
\* Number of calls made on one acm object.
MaxCalls == 3
\* Number of orders explored in which scipy takes entries of equal weight.
NumTieOrders == 2

\* ------------------------------------------------------------- float64
Base == 16384
EMin == -1074
EMax == 971
P2 == <<1, 2, 4, 8, 16, 32, 64, 128, 256, 512, 1024, 2048, 4096, 8192, 16384>>
Pow2(k) == P2[k + 1]


ZeroM == <<0, 0, 0, 0>>
\* 0.0 (the sign of a zero is not kept: -0.0 == 0.0 in every test the
\* program makes)
Zero == <<0, EMin, ZeroM>>
One == <<0, -52, <<0, 0, 0, 1024>>>>
\* The outcome of an operation that raised FloatingPointError
Fault == <<6, 0, ZeroM>>

\* limb i (from 0) of the limb sequence X
L(X, i) == IF i >= 0 /\ i < Len(X) THEN X[i + 1] ELSE 0

\* limb j of floor(X / 2^(14*q + r)), 0 <= r < 14
WindowQR(X, q, r, j) ==
    (L(X, q + j) \div Pow2(r)) + (L(X, q + j + 1) % Pow2(r)) * Pow2(14 - r)
ShiftQR4(X, q, r) ==
    <<WindowQR(X, q, r, 0), WindowQR(X, q, r, 1), WindowQR(X, q, r, 2),
      WindowQR(X, q, r, 3)>>
ShiftQR8(X, q, r) == ShiftQR4(X, q, r) \o ShiftQR4(X, q + 4, r)
\* the low 4 (8) limbs of floor(X / 2^k); k < 0 shifts left
Shift4(X, k) == ShiftQR4(X, k \div 14, k % 14)
Shift8(X, k) == ShiftQR8(X, k \div 14, k % 14)

\* bit i of X
Bit(X, i) == (L(X, i \div 14) \div Pow2(i % 14)) % 2
\* some bit of X below bit n is set
AnyBelow(X, n) ==
    \/ L(X, n \div 14) % Pow2(n % 14) # 0
    \/ \E i \in 1 .. Len(X) : i <= n \div 14 /\ X[i] # 0

RECURSIVE Carry(_, _, _), TopLimb(_, _), BitLen(_), BigLessFrom(_, _, _)
\* the limbs of the number with column sums cols, from column i on with
\* carry c
Carry(cols, i, c) ==
    IF i > Len(cols) THEN <<>>
    ELSE <<(cols[i] + c) % Base>> \o Carry(cols, i + 1, (cols[i] + c) \div Base)

TopLimb(X, i) == IF i = 0 THEN 0 ELSE IF X[i] # 0 THEN i ELSE TopLimb(X, i - 1)
BitLen(x) == IF x = 0 THEN 0 ELSE 1 + BitLen(x \div 2)
NBitsAt(X, t) == IF t = 0 THEN 0 ELSE 14 * (t - 1) + BitLen(X[t])
\* number of significant bits of X
NBits(X) == NBitsAt(X, TopLimb(X, Len(X)))

\* X < Y, comparing limbs i, i-1, .., 0
BigLessFrom(X, Y, i) ==
    IF i < 0 THEN FALSE
    ELSE IF L(X, i) # L(Y, i) THEN L(X, i) < L(Y, i)
    ELSE BigLessFrom(X, Y, i - 1)
BigLess(X, Y) == BigLessFrom(X, Y, 7)

AddCols(X, Y) ==
    <<L(X, 0) + L(Y, 0), L(X, 1) + L(Y, 1), L(X, 2) + L(Y, 2), L(X, 3) + L(Y, 3),
      L(X, 4) + L(Y, 4), L(X, 5) + L(Y, 5), L(X, 6) + L(Y, 6), L(X, 7) + L(Y, 7)>>
SubCols(X, Y) ==
    <<L(X, 0) - L(Y, 0), L(X, 1) - L(Y, 1), L(X, 2) - L(Y, 2), L(X, 3) - L(Y, 3),
      L(X, 4) - L(Y, 4), L(X, 5) - L(Y, 5), L(X, 6) - L(Y, 6), L(X, 7) - L(Y, 7)>>
MulCols(a, b) ==
    <<a[1] * b[1],
      a[1] * b[2] + a[2] * b[1],
      a[1] * b[3] + a[2] * b[2] + a[3] * b[1],
      a[1] * b[4] + a[2] * b[3] + a[3] * b[2] + a[4] * b[1],
      a[2] * b[4] + a[3] * b[3] + a[4] * b[2],
      a[3] * b[4] + a[4] * b[3],
      a[4] * b[4],
      0>>

\* Rounding to nearest, ties to even, of X / 2^k: <<mantissa, inexact>>
RoundUp(M, half, rest) ==
    <<IF half /\ (rest \/ M[1] % 2 = 1)
      THEN Carry(<<M[1] + 1, M[2], M[3], M[4]>>, 1, 0) ELSE M,
      half \/ rest>>
RoundAt(X, k, sticky) ==
    IF k <= 0 THEN <<Shift4(X, k), sticky>>
    ELSE RoundUp(Shift4(X, k), Bit(X, k - 1) = 1, AnyBelow(X, k - 1) \/ sticky)

\* The float of sign s, exponent e and mantissa M, or the overflow mark
Over(s, e, M) == IF e > EMax THEN <<2 + s, 0, ZeroM>> ELSE <<s, e, M>>
Normal(s, e, r) ==
    IF r[1][4] = 2048 THEN Over(s, e + 1, <<0, 0, 0, 1024>>) ELSE Over(s, e, r[1])
\* A result below the normal range: r is the rounding at exponent EMin; it is
\* an underflow when it is inexact and the result is tiny after rounding
Subnormal(s, r, e0, X, n, sticky) ==
    IF ~r[2] THEN <<s, EMin, r[1]>>
    ELSE IF /\ r[1][4] = 1024
            /\ e0 = EMin - 1
            /\ RoundAt(X, n - 53, sticky)[1][4] = 2048
         THEN <<s, EMin, r[1]>>
         ELSE <<4 + s, EMin, r[1]>>
RoundPackN(s, e, X, sticky, n) ==
    IF n = 0 THEN Zero
    ELSE IF e + n - 53 >= EMin THEN Normal(s, e + n - 53, RoundAt(X, n - 53, sticky))
    ELSE Subnormal(s, RoundAt(X, EMin - e, sticky), e + n - 53, X, n, sticky)
\* The float64 nearest to (-1)^s * X * 2^e (plus a fraction when sticky)
RoundPack(s, e, X, sticky) == RoundPackN(s, e, X, sticky, NBits(X))

\* --- the four operations, with the marks of overflow and underflow
RawMul(a, b) ==
    RoundPack((a[1] + b[1]) % 2, a[2] + b[2], Carry(MulCols(a[3], b[3]), 1, 0), FALSE)

AddAligned(sa, sb, e, X, Y) ==
    IF sa = sb THEN RoundPack(sa, e, Carry(AddCols(X, Y), 1, 0), FALSE)
    ELSE IF BigLess(X, Y) THEN RoundPack(sb, e, Carry(SubCols(Y, X), 1, 0), FALSE)
    ELSE RoundPack(sa, e, Carry(SubCols(X, Y), 1, 0), FALSE)
AddOrd(a, b) ==
    IF a[2] - b[2] >= 58 THEN a
    ELSE AddAligned(a[1], b[1], b[2], Shift8(a[3], b[2] - a[2]), b[3])
RawAdd(a, b) == IF a[2] >= b[2] THEN AddOrd(a, b) ELSE AddOrd(b, a)
Neg(a) == <<1 - a[1], a[2], a[3]>>
RawSub(a, b) == RawAdd(a, Neg(b))

RECURSIVE LongDiv(_, _, _, _), FixQ(_, _, _)
MulSmall(D, q) == Carry(<<D[1] * q, D[2] * q, D[3] * q, D[4] * q, 0>>, 1, 0)
FixQT(num, D, q, T) ==
    IF BigLess(num, T) THEN FixQ(num, D, q - 1)
    ELSE <<q, SubSeq(Carry(SubCols(num, T), 1, 0), 1, 4)>>
FixQ(num, D, q) == FixQT(num, D, q, MulSmall(D, q))
QHat(R, D) ==
    IF (R[4] * Base + R[3]) \div D[4] > Base - 1 THEN Base - 1
    ELSE (R[4] * Base + R[3]) \div D[4]
LongDivNext(D, n, Q, qr) == LongDiv(qr[2], D, n - 1, <<qr[1]>> \o Q)
\* n more limbs of the quotient Q, the remainder being R < D
LongDiv(R, D, n, Q) ==
    IF n = 0 THEN <<Q, R>>
    ELSE LongDivNext(D, n, Q, FixQ(<<0, R[1], R[2], R[3], R[4]>>, D, QHat(R, D)))
DivOut(s, e, qr) == RoundPack(s, e, qr[1], qr[2] # ZeroM)
DivQ(s, e, A, D) ==
    IF BigLess(A, D) THEN DivOut(s, e, LongDiv(A, D, 4, <<0>>))
    ELSE DivOut(s, e, LongDiv(SubSeq(Carry(SubCols(A, D), 1, 0), 1, 4), D, 4, <<1>>))
DivNorm(s, e, Ma, Mb, sha, shb) ==
    DivQ(s, e - sha + shb - 56, Shift4(Ma, -sha), Shift4(Mb, -shb))
RawDiv(a, b) ==
    IF b[3] = ZeroM THEN Fault
    ELSE IF a[3] = ZeroM THEN Zero
    ELSE DivNorm((a[1] + b[1]) % 2, a[2] - b[2], a[3], b[3],
                 56 - NBits(a[3]), 56 - NBits(b[3]))

\* np.seterr('raise'): overflow, underflow and division by zero raise
Chk(r) == IF r[1] > 1 THEN Fault ELSE r
Add(a, b) == IF a[1] > 1 \/ b[1] > 1 THEN Fault ELSE Chk(RawAdd(a, b))
Sub(a, b) == IF a[1] > 1 \/ b[1] > 1 THEN Fault ELSE Chk(RawSub(a, b))
Mul(a, b) == IF a[1] > 1 \/ b[1] > 1 THEN Fault ELSE Chk(RawMul(a, b))
Div(a, b) == IF a[1] > 1 \/ b[1] > 1 THEN Fault ELSE Chk(RawDiv(a, b))

MagLess(a, b) == a[2] < b[2] \/ (a[2] = b[2] /\ BigLessFrom(a[3], b[3], 3))
Less(a, b) ==
    IF a[1] # b[1] THEN a[1] = 1 /\ (a[3] # ZeroM \/ b[3] # ZeroM)
    ELSE IF a[1] = 0 THEN MagLess(a, b) ELSE MagLess(b, a)

\* The operations as C code performs them (inside np.interp): nothing is
\* raised, an overflow gives an infinity and an underflow the rounded result
Quiet(r) ==
    IF r[1] < 4 THEN r
    ELSE IF r[3] = ZeroM THEN Zero
    ELSE <<r[1] - 4, r[2], r[3]>>
IsInf(a) == a[1] \in {2, 3}

\* The float of the integer n, 0 <= n < 2^14, and of n/8
FromInt(n) == RoundPack(0, 0, <<n>>, FALSE)
Eighths(n) == RoundPack(0, -3, <<n>>, FALSE)

\* The literals 0.01 (lines 46, 49), 0.1 and 0.9 (lines 138, 142) and 1e-6
\* (line 169), the 1e-8 within which scipy takes an entry of a dense graph
\* for zero, and the contraction parameter 2**-50
InitWeight == <<0, -59, <<5243, 7864, 11796, 1310>>>>
Tenth == <<0, -56, <<6554, 9830, 6553, 1638>>>>
NineTenths == <<0, -53, <<3277, 13107, 3276, 1843>>>>
Precision == <<0, -72, <<11661, 727, 12154, 1073>>>>
NullTolerance == <<0, -79, <<3130, 2242, 6382, 1374>>>>
TinyC == RoundPack(0, -50, <<1>>, FALSE)

\* Constructor arguments explored: <<_inputLength, _contraction>>.
Models ==
    {<<2, FromInt(2)>>, <<2, Zero>>, <<2, InitWeight>>, <<6, TinyC>>,
     <<10, FromInt(2)>>}

VARIABLES
    N,         \* self.N
    C,         \* self.C
    v,         \* self.v
    w,         \* self.w
    mHidden,   \* self.mHidden
    mOut,      \* self.mOut
    net,       \* self.net
    training,  \* self.training
    label,     \* self.label
    cnt,       \* self.cnt
    mst,       \* self.mst
    attrs,     \* which of the attributes cnt, mst, net have been created
    pc,        \* "idle", or "run" while the loop of run() is executing
    pos,       \* number of elements the loop of run() has taken from self.training
    exc,       \* outcome of the latest call: "none" or the exception it raised
    printed,   \* what the latest printTree() wrote
    drawn,     \* the edge list the latest draw() built
    calls      \* number of calls made on the object

vars == <<N, C, v, w, mHidden, mOut, net, training, label, cnt, mst, attrs,
          pc, pos, exc, printed, drawn, calls>>

Idx == 0 .. (N - 1)

\* ------------------------------------------------------------- runOnce
Min2(a, b) == IF Less(b, a) THEN b ELSE a
Max2(a, b) == IF Less(a, b) THEN b ELSE a

RECURSIVE VecMin(_, _), VecMax(_, _), SumFrom(_, _, _), LaneFrom(_, _, _, _)
\* _mIn.min(): least of x[0..i]
VecMin(x, i) == IF i = 0 THEN x[0] ELSE Min2(VecMin(x, i - 1), x[i])
\* _mIn.max(): greatest of x[0..i]
VecMax(x, i) == IF i = 0 THEN x[0] ELSE Max2(VecMax(x, i - 1), x[i])

\* res + x[i] + x[i+1] + ... + x[N-1], added from left to right
SumFrom(x, i, res) == IF i >= N THEN res ELSE SumFrom(x, i + 1, Add(res, x[i]))
\* res + x[i] + x[i+8] + ... over the indices below lim
LaneFrom(x, i, lim, res) ==
    IF i >= lim THEN res ELSE LaneFrom(x, i + 8, lim, Add(res, x[i]))
Lane(x, k) == LaneFrom(x, k + 8, N - (N % 8), x[k])
\* np.sum of the N elements of x, N <= 128: numpy adds fewer than 8 elements
\* from left to right; otherwise it adds them in 8 lanes, the lanes in
\* pairs, and then the elements left over
NpSum(x) ==
    IF N < 8 THEN SumFrom(x, 0, Zero)
    ELSE SumFrom(x, N - (N % 8),
                 Add(Add(Add(Lane(x, 0), Lane(x, 1)), Add(Lane(x, 2), Lane(x, 3))),
                     Add(Add(Lane(x, 4), Lane(x, 5)), Add(Lane(x, 6), Lane(x, 7)))))

\* np.interp(x, (lo, hi), (0, 1)).  numpy looks up the interval of x in the
\* two points (lo, hi): at or right of hi gives 1 (so it does when lo = hi),
\* at lo gives 0, and in between slope*(x - lo) + 0 with
\* slope = (1 - 0)/(hi - lo), computed without raising.
Slope(d) == IF IsInf(d) THEN Zero ELSE Quiet(RawDiv(One, d))
\* slope*t for t = x - lo; when t is infinite so is hi - lo, slope is 0 and
\* numpy replaces the nan of 0*inf by slope*(x - hi) + 1
InterpInside(slope, t) ==
    IF IsInf(slope) THEN slope
    ELSE IF IsInf(t) THEN One
    ELSE Quiet(RawMul(slope, t))
InterpOne(x, lo, hi, slope) ==
    IF ~Less(x, hi) THEN One
    ELSE IF ~Less(lo, x) THEN Zero
    ELSE InterpInside(slope, Quiet(RawSub(x, lo)))

RECURSIVE InterpAll(_, _, _, _, _)
\* x with the elements from index i on interpolated
InterpAll(x, lo, hi, slope, i) ==
    IF i >= N THEN x
    ELSE InterpAll([x EXCEPT ![i] = InterpOne(x[i], lo, hi, slope)],
                   lo, hi, slope, i + 1)
InterpLoHi(x, lo, hi) ==
    InterpAll(x, lo, hi, IF Less(lo, hi) THEN Slope(Quiet(RawSub(hi, lo))) ELSE Zero, 0)

\* line 74
Interp(x) == InterpLoHi(x, VecMin(x, N - 1), VecMax(x, N - 1))

\* lines 75-76: np.amin(mIn) >= 0 and np.amax(mIn) <= 1
AssertsHold(mIn) ==
    \A i \in Idx : ~IsInf(mIn[i]) /\ ~Less(mIn[i], Zero) /\ ~Less(One, mIn[i])

\* The state runOnce works on: m.err is "none" until a statement raises,
\* and every statement after the one that raised is skipped.
Raised(m, e) == [m EXCEPT !.err = e]

RECURSIVE SignalHidden(_, _, _), AdaptV(_, _, _), SignalNetRow(_, _, _),
          SignalNet(_, _), SignalNetAfter(_, _), SignalOut(_, _),
          AdaptWRow(_, _, _), AdaptW(_, _), AdaptWAfter(_, _)

\* line 80 for index i, val being the value computed, then the later indices
SignalHiddenSet(m, mIn, i, val) ==
    IF val = Fault THEN Raised(m, "FloatingPointError")
    ELSE SignalHidden([m EXCEPT !.mHidden[i] = val], mIn, i + 1)
\* lines 79-80, from index i on
SignalHidden(m, mIn, i) ==
    IF i >= N THEN m
    ELSE SignalHiddenSet(m, mIn, i, Mul(mIn[i], Sub(One, Div(m.v[i], C))))

\* line 85 for index i, val being the value computed, then the later indices
AdaptVSet(m, mIn, i, val) ==
    IF val = Fault THEN Raised(m, "FloatingPointError")
    ELSE AdaptV([m EXCEPT !.v[i] = val], mIn, i + 1)
\* lines 84-85, from index i on
AdaptV(m, mIn, i) ==
    IF i >= N THEN m
    ELSE AdaptVSet(m, mIn, i,
                   Add(m.v[i],
                       Mul(Sub(mIn[i], m.mHidden[i]), Sub(One, Div(m.v[i], C)))))

\* line 91 for the entry i, j, val being the value computed, then the later
\* entries of the row
SignalNetSet(m, i, j, val) ==
    IF val = Fault THEN Raised(m, "FloatingPointError")
    ELSE SignalNetRow([m EXCEPT !.net[i] = val], i, j + 1)
\* lines 90-91 for row i, from index j on
SignalNetRow(m, i, j) ==
    IF j >= N THEN m
    ELSE SignalNetSet(m, i, j,
                      Add(m.net[i], Mul(m.mHidden[j], Sub(One, Div(m.w[i][j], C)))))

\* lines 89-91, from row i on; after, with row i done
SignalNet(m, i) == IF i >= N THEN m ELSE SignalNetAfter(SignalNetRow(m, i, 0), i)
SignalNetAfter(m, i) == IF m.err # "none" THEN m ELSE SignalNet(m, i + 1)

\* line 94 for index i, val being the value computed, then the later indices
SignalOutSet(m, i, val) ==
    IF val = Fault THEN Raised(m, "FloatingPointError")
    ELSE SignalOut([m EXCEPT !.mOut[i] = val], i + 1)
\* lines 93-94, from index i on
SignalOut(m, i) ==
    IF i >= N THEN m
    ELSE SignalOutSet(m, i, Mul(m.mHidden[i], Sub(One, Div(m.net[i], C))))

\* line 100 for the entry i, j, val being the value computed, then the later
\* entries of the row
AdaptWSet(m, i, j, val) ==
    IF val = Fault THEN Raised(m, "FloatingPointError")
    ELSE AdaptWRow([m EXCEPT !.w[i][j] = val], i, j + 1)
\* lines 98-100 for row i, from index j on
AdaptWRow(m, i, j) ==
    IF j >= N THEN m
    ELSE AdaptWSet(m, i, j,
                   Add(m.w[i][j],
                       Mul(Mul(Sub(m.mHidden[i], m.mOut[i]),
                               Sub(One, Div(m.w[i][j], C))),
                           m.mHidden[j])))

\* lines 97-100, from row i on; after, with row i done
AdaptW(m, i) == IF i >= N THEN m ELSE AdaptWAfter(AdaptWRow(m, i, 0), i)
AdaptWAfter(m, i) == IF m.err # "none" THEN m ELSE AdaptW(m, i + 1)

\* lines 96-100, unless an earlier statement raised
Phase5(m) == IF m.err # "none" THEN m ELSE AdaptW(m, 0)
\* lines 93-100
Phase4(m) == IF m.err # "none" THEN m ELSE Phase5(SignalOut(m, 0))
\* A faulty variant of Phase3: line 88 is missing, so net keeps accumulating
\* from one update step to the next.
Phase3KeepNet(m) ==
    IF m.err # "none" THEN m
    ELSE Phase4(SignalNet([m EXCEPT !.hasNet = TRUE], 0))

\* lines 87-100; line 88 creates self.net anew
Phase3(m) ==
    IF m.err # "none" THEN m
    ELSE Phase4(SignalNet([m EXCEPT !.net = [i \in Idx |-> Zero], !.hasNet = TRUE], 0))
\* lines 82-100
Phase2(m, mIn) == IF m.err # "none" THEN m ELSE Phase3(AdaptV(m, mIn, 0))
\* lines 75-100
Phase1(m, mIn) ==
    IF ~AssertsHold(mIn) THEN Raised(m, "AssertionError")
    ELSE Phase2(SignalHidden(m, mIn, 0), mIn)

\* runOnce(_mIn) on the arrays m
RunOnce(m, x) == Phase1(m, Interp(x))

\* The arrays of the object as runOnce finds them
Arrays == [v |-> v, w |-> w, mHidden |-> mHidden, mOut |-> mOut, net |-> net,
           hasNet |-> "net" \in attrs, err |-> "none"]

\* ------------------------------------------------------------- run
\* A faulty variant of StopTraining: the lower bound is strict, so a sum of
\* exactly zero does not stop the loop.
StopTrainingStrict(sumOut) == Less(Zero, sumOut) /\ Less(sumOut, Precision)

\* line 169: sumOut >= 0 and sumOut < 1e-6
StopTraining(sumOut) == ~Less(sumOut, Zero) /\ Less(sumOut, Precision)

\* scipy's minimum_spanning_tree on the dense matrix g (line 173).  scipy
\* first turns g into a sparse graph, and an entry x is an edge of it unless
\* it is masked as equal to zero, which np.ma.masked_values decides by
\* |x - 0| <= 1e-8.  Then Kruskal's algorithm runs over the edges taken by
\* ascending weight (the order np.argsort gives them); an edge is kept when
\* it joins two components of comp.  The order of edges of equal weight is
\* not specified (it depends on the sort the numpy build uses); tie order t
\* takes them by ascending TieKey, and tie order 0 is the order of a stable
\* sort.  The edge taken next is the first, in that order, of the edges that
\* still join two components (<<>> when there is none).  The result is g
\* with every entry that was not kept set to zero.
TieOrders == 0 .. (NumTieOrders - 1)

\* The entry x of the dense matrix is an edge of the graph
IsEdge(x) == MagLess(NullTolerance, x)

\* Place of entry e among the entries of its weight: row-major for t = 0,
\* the reverse for t = 1, and these two rotated for the later t
TieKey(t, e) ==
    IF t % 2 = 0 THEN (e[1] * N + e[2] + 7 * (t \div 2)) % (N * N)
    ELSE (N * N - 1 - (e[1] * N + e[2]) + 7 * (t \div 2)) % (N * N)

\* Entry a is taken before entry b
TakenBefore(g, t, a, b) ==
    \/ Less(g[a[1]][a[2]], g[b[1]][b[2]])
    \/ /\ ~Less(g[b[1]][b[2]], g[a[1]][a[2]])
       /\ TieKey(t, a) < TieKey(t, b)

\* Of the entries a and b (<<>> for none), the one taken first
FirstOf(g, t, a, b) ==
    IF a = <<>> THEN b
    ELSE IF b = <<>> THEN a
    ELSE IF TakenBefore(g, t, b, a) THEN b ELSE a

RECURSIVE NextEdgeInRow(_, _, _, _, _, _), NextEdge(_, _, _, _)
\* The first entry that joins two components among best and g[i][j..]
NextEdgeInRow(g, comp, t, i, j, best) ==
    IF j >= N THEN best
    ELSE IF IsEdge(g[i][j]) /\ comp[i] # comp[j]
         THEN NextEdgeInRow(g, comp, t, i, j + 1, FirstOf(g, t, best, <<i, j>>))
         ELSE NextEdgeInRow(g, comp, t, i, j + 1, best)

\* The first such entry among the rows i .. N-1
NextEdge(g, comp, t, i) ==
    IF i >= N THEN <<>>
    ELSE FirstOf(g, t, NextEdgeInRow(g, comp, t, i, 0, <<>>), NextEdge(g, comp, t, i + 1))

\* The components comp with every node of component from moved to component
\* to, from node i on
RECURSIVE Relabel(_, _, _, _)
Relabel(comp, from, to, i) ==
    IF i >= N THEN comp
    ELSE IF comp[i] = from
         THEN Relabel([comp EXCEPT ![i] = to], from, to, i + 1)
         ELSE Relabel(comp, from, to, i + 1)

\* The components comp after entry e has joined two of them
Union(comp, e) == Relabel(comp, comp[e[2]], comp[e[1]], 0)

RECURSIVE Kruskal(_, _, _, _), KruskalKeep(_, _, _, _, _)
Kruskal(g, comp, t, tree) == KruskalKeep(g, comp, t, tree, NextEdge(g, comp, t, 0))
KruskalKeep(g, comp, t, tree, e) ==
    IF e = <<>> THEN tree ELSE Kruskal(g, Union(comp, e), t, tree \cup {e})

TreeMatrix(g, tree) ==
    [i \in Idx |-> [j \in Idx |-> IF <<i, j>> \in tree THEN g[i][j] ELSE Zero]]

\* minimum_spanning_tree(g).toarray() when equal weights come in tie order t
MinimumSpanningTree(g, t) == TreeMatrix(g, Kruskal(g, [i \in Idx |-> i], t, {}))

\* ------------------------------------------------------------- fixtures
\* np.random.rand: the k-th number drawn from generator state seed, as a
\* level 0..7 of eighths (a value of [0, 1)).
RECURSIVE RandLevel(_, _)
RandLevel(seed, k) == IF k = 0 THEN seed ELSE (5 * RandLevel(seed, k - 1) + 3) % 8
Rand(seed, k) == Eighths(RandLevel(seed, k))
Seeds == 0 .. (NumSeeds - 1)

\* str(j) prefixed by 'R' (lines 114, 130)
RLabel(j) == "R" \o ToString(j)

\* line 128
CorrelatedLabels ==
    <<"R1", "2xR1", "R1+0.1", "R1^2", "2*R1^2", "3xR1^2",
      "R2>0.9", "R3>0.9", "R4>0.9", "R5>0.9">>

\* lines 142-145: rand*0.1 + 0.9
High(r) == Add(Mul(r, Tenth), NineTenths)

\* lines 135-145 with v[0] = v0 and the four later draws d
CorrelatedVector(v0, d) ==
    [i \in Idx |->
       CASE i = 0 -> v0
         [] i = 1 -> Mul(v0, FromInt(2))
         [] i = 2 -> Add(v0, Tenth)
         [] i = 3 -> Mul(v0, v0)
         [] i = 4 -> Mul(Mul(v0, v0), FromInt(2))
         [] i = 5 -> Mul(Mul(v0, v0), FromInt(3))
         [] i \in 6 .. 9 -> High(d[i - 5])
         [] OTHER -> Zero]

\* row r of the training set: the draws 5*r .. 5*r+4 of the generator
CorrelatedRow(seed, r) ==
    CorrelatedVector(Rand(seed, 5 * r), [t \in 1 .. 4 |-> Rand(seed, 5 * r + t)])

\* ------------------------------------------------------------- reporting
RECURSIVE ConnectionsRowAll(_, _, _), ConnectionsRow(_, _, _), ConnectionsFrom(_, _)

\* A faulty variant of ConnectionsRow: the test of lines 186 and 200 is
\* missing, so zero entries are reported too.
ConnectionsRowAll(corr, i, j) ==
    IF j >= N THEN <<>>
    ELSE << <<label[i + 1], label[j + 1], corr[i][j]>> >>
         \o ConnectionsRowAll(corr, i, j + 1)

\* lines 185-187 and 199-203 for row i of corr, from index j on: the
\* non-zero entries, each with its two labels
ConnectionsRow(corr, i, j) ==
    IF j >= N THEN <<>>
    ELSE (IF corr[i][j] # Zero
          THEN << <<label[i + 1], label[j + 1], corr[i][j]>> >>
          ELSE <<>>) \o ConnectionsRow(corr, i, j + 1)

\* lines 184-187 and 198-203, from row i on
ConnectionsFrom(corr, i) ==
    IF i >= N THEN <<>>
    ELSE ConnectionsRow(corr, i, 0) \o ConnectionsFrom(corr, i + 1)

Connections(corr) == ConnectionsFrom(corr, 0)

\* ------------------------------------------------------------- the object
Zeros == [i \in Idx |-> Zero]

\* __init__ (lines 40-62); cnt, mst and net are created by later calls
Init ==
    /\ \E args \in Models : N = args[1] /\ C = args[2]
    /\ v = [i \in Idx |-> InitWeight]
    /\ w = [i \in Idx |-> [j \in Idx |-> InitWeight]]
    /\ mHidden = Zeros
    /\ mOut = Zeros
    /\ net = Zeros
    /\ training = <<Zeros>>
    /\ label = [j \in 1 .. N |-> ""]
    /\ cnt = 0
    /\ mst = [i \in Idx |-> Zeros]
    /\ attrs = {}
    /\ pc = "idle"
    /\ pos = 0
    /\ exc = "none"
    /\ printed = <<>>
    /\ drawn = <<>>
    /\ calls = 0

\* A method is called on the object while no other is executing.
Call ==
    /\ pc = "idle"
    /\ calls < MaxCalls
    /\ calls' = calls + 1

\* createTrainingRandom (lines 109-114)
CreateTrainingRandom ==
    /\ Call
    /\ \E seed \in Seeds :
          training' = [r \in 1 .. NSamples |->
                          [c \in Idx |-> Rand(seed, (r - 1) * N + c)]]
    /\ label' = [j \in 1 .. N |-> RLabel(j - 1)]
    /\ exc' = "none"
    /\ UNCHANGED <<N, C, v, w, mHidden, mOut, net, cnt, mst, attrs, pc, pos,
                   printed, drawn>>

\* lines 128-130: the ten fixed labels, then one per index 8 .. N-1
CorrelatedLabelList ==
    CorrelatedLabels \o [k \in 1 .. (IF N > 8 THEN N - 8 ELSE 0) |-> RLabel(7 + k)]

\* createTrainingCorrelated (lines 124-150)
CreateTrainingCorrelated ==
    /\ Call
    /\ \/ \* line 125
          /\ N < 6
          /\ exc' = "ValueError"
          /\ UNCHANGED <<training, label>>
       \/ \* the first row has N entries and lines 142-145 store into 6 .. 9
          /\ N >= 6
          /\ N < 10
          /\ label' = CorrelatedLabelList
          /\ training' = <<>>
          /\ exc' = "IndexError"
       \/ /\ N >= 10
          /\ label' = CorrelatedLabelList
          /\ \E seed \in Seeds :
                training' = [r \in 1 .. NSamples |-> CorrelatedRow(seed, r - 1)]
          /\ exc' = "none"
    /\ UNCHANGED <<N, C, v, w, mHidden, mOut, net, cnt, mst, attrs, pc, pos,
                   printed, drawn>>

\* A faulty variant of StoreTree: line 173 is inside the else branch of the
\* loop, so a run that stops early stores no tree.
StoreTreeUnlessBreak(end, g) ==
    IF end = "last"
    THEN \E t \in TieOrders : mst' = MinimumSpanningTree(g, t)
    ELSE UNCHANGED mst

\* line 173, reached when the loop has ended by break or by exhaustion
StoreTree(end, g) ==
    IF end \in {"break", "last"}
    THEN \E t \in TieOrders : mst' = MinimumSpanningTree(g, t)
    ELSE UNCHANGED mst

\* run(), line 159 and the start of the loop; over an empty training set the
\* loop ends at once and line 173 follows
RunBegin ==
    /\ Call
    /\ attrs' = attrs \cup {"cnt"} \cup (IF training = <<>> THEN {"mst"} ELSE {})
    /\ cnt' = 0
    /\ pos' = 0
    /\ exc' = "none"
    /\ pc' = IF training = <<>> THEN "idle" ELSE "run"
    /\ StoreTree(IF training = <<>> THEN "last" ELSE "next", w)
    /\ UNCHANGED <<N, C, v, w, mHidden, mOut, net, training, label, printed, drawn>>

StoreArrays(m) ==
    /\ v' = m.v
    /\ w' = m.w
    /\ mHidden' = m.mHidden
    /\ mOut' = m.mOut
    /\ net' = m.net

\* line 168
SumOut(m) == NpSum(m.mOut)

\* How one pass of the loop of run() (lines 160-170) ends: "raise" when
\* runOnce raises, "sumraise" when np.sum does, "break" at line 170, "last"
\* after the last element and "next" otherwise.
PassEnd(m, sumOut) ==
    IF m.err # "none" THEN "raise"
    ELSE IF sumOut = Fault THEN "sumraise"
    ELSE IF StopTraining(sumOut) THEN "break"
    ELSE IF pos + 1 >= Len(training) THEN "last"
    ELSE "next"

\* One pass of the loop of run(): runOnce on the next element, then lines
\* 162-170, and line 173 when the loop ends with this pass.  An exception
\* leaves run() with what had been stored so far.
RunSample ==
    /\ pc = "run"
    /\ \E m \in {RunOnce(Arrays, training[pos + 1])} :
       \E end \in {PassEnd(m, IF m.err = "none" THEN SumOut(m) ELSE Fault)} :
          /\ StoreArrays(m)
          /\ pos' = pos + 1
          /\ cnt' = IF end = "raise" THEN cnt ELSE cnt + 1
          /\ exc' = CASE end = "raise" -> m.err
                       [] end = "sumraise" -> "FloatingPointError"
                       [] OTHER -> "none"
          /\ pc' = IF end = "next" THEN "run" ELSE "idle"
          /\ StoreTree(end, m.w)
          /\ attrs' = attrs \cup (IF m.hasNet THEN {"net"} ELSE {})
                            \cup (IF end \in {"break", "last"} THEN {"mst"} ELSE {})
    /\ UNCHANGED <<N, C, training, label, printed, drawn, calls>>

\* The vectors runOnce is called with from outside run()
StepInputs == {[c \in Idx |-> Rand(seed, c)] : seed \in Seeds}

\* runOnce(_mIn) called on the object (lines 66-100)
RunOnceCall ==
    /\ Call
    /\ \E x \in StepInputs :
       \E m \in {RunOnce(Arrays, x)} :
          /\ StoreArrays(m)
          /\ exc' = m.err
          /\ attrs' = attrs \cup (IF m.hasNet THEN {"net"} ELSE {})
    /\ UNCHANGED <<N, C, training, label, cnt, mst, pc, pos, printed, drawn>>

\* printTree (lines 181-187)
PrintTree ==
    /\ Call
    /\ IF "cnt" \notin attrs
       THEN /\ printed' = <<>>
            /\ exc' = "AttributeError"
       ELSE IF "mst" \notin attrs
       THEN /\ printed' = << <<"Total number of runs", cnt>> >>
            /\ exc' = "AttributeError"
       ELSE /\ printed' = << <<"Total number of runs", cnt>> >> \o Connections(mst)
            /\ exc' = "none"
    /\ UNCHANGED <<N, C, v, w, mHidden, mOut, net, training, label, cnt, mst,
                   attrs, pc, pos, drawn>>

\* draw (lines 194-205): the rows of the edge list handed to the graph
Draw ==
    /\ Call
    /\ IF "mst" \notin attrs
       THEN /\ exc' = "AttributeError"
            /\ UNCHANGED drawn
       ELSE /\ drawn' = Connections(mst)
            /\ exc' = "none"
    /\ UNCHANGED <<N, C, v, w, mHidden, mOut, net, training, label, cnt, mst,
                   attrs, pc, pos, printed>>

Next ==
    \/ CreateTrainingRandom
    \/ CreateTrainingCorrelated
    \/ RunBegin
    \/ RunSample
    \/ RunOnceCall
    \/ PrintTree
    \/ Draw

Spec == Init /\ [][Next]_vars

\* ------------------------------------------------------------- properties
\* The sum s is at least 0 and below 1e-6
SmallSum(s) == s # Fault /\ ~Less(s, Zero) /\ Less(s, Precision)

\* The outputs out have converged
Converged(out) == SmallSum(NpSum(out))

\* A step of run() in which runOnce completed on one more sample
PassDone == pc = "run" /\ cnt' = cnt + 1

\* A step in which runOnce, called from outside run(), changed the arrays
DirectStep ==
    /\ pc = "idle"
    /\ pc' = "idle"
    /\ <<mHidden, v, net, mOut, w>>' # <<mHidden, v, net, mOut, w>>

\* A step with which run() returns
RunReturns ==
    \/ pc = "run" /\ pc' = "idle" /\ exc' = "none"
    \/ RunBegin /\ pc' = "idle"

\* The exceptions an update step raises
StepErrors == {"FloatingPointError", "AssertionError"}

\* C1: the stopping condition 0 <= sum(mOut) < 1e-6 is evaluated after every
\* processed sample; once it holds the loop is left and no further sample is
\* passed to runOnce (after the first sample: cnt = 1); while it does not hold
\* the loop goes on until every sample of the sequence has been processed.
C1_EarlyStop ==
    [][(PassDone /\ exc' = "none") =>
          /\ pos' = cnt'
          /\ pc' = IF Converged(mOut') \/ cnt' = Len(training) THEN "idle" ELSE "run"]_vars

\* A run has returned after its first sample, with samples left unconsumed.
C1_Witness ==
    /\ pc = "idle"
    /\ exc = "none"
    /\ "mst" \in attrs
    /\ cnt = 1
    /\ pos = 1
    /\ Len(training) > 1
    /\ Converged(mOut)

\* C2 (its last part): 0 <= cnt <= length of the training sequence in every
\* reachable state, also when run() is called repeatedly.
C2_CntWithinTraining == "cnt" \in attrs => (0 <= cnt /\ cnt <= Len(training))

\* The phase-by-phase reference of C3, from the scaled input s and the weights
\* v0, w0 of before the step.  Every phase is a sequence (element i of the
\* arrays at position i + 1) built from the phases before it.
RECURSIVE RefHidden(_, _, _), RefV(_, _, _, _), RefNetRow(_, _, _, _, _),
          RefNet(_, _, _), RefOut(_, _, _), RefWRow(_, _, _, _, _), RefW(_, _, _, _)

\* Signal transfer input -> hidden, from index i on
RefHidden(s, v0, i) ==
    IF i >= N THEN <<>>
    ELSE <<Mul(s[i], Sub(One, Div(v0[i], C)))>> \o RefHidden(s, v0, i + 1)

\* Adaptation of v, from index i on
RefV(s, v0, h, i) ==
    IF i >= N THEN <<>>
    ELSE <<Add(v0[i], Mul(Sub(s[i], h[i + 1]), Sub(One, Div(v0[i], C))))>>
         \o RefV(s, v0, h, i + 1)

\* net[i]: acc plus the terms of the indices j .. N-1
RefNetRow(w0, h, i, j, acc) ==
    IF j >= N THEN acc
    ELSE RefNetRow(w0, h, i, j + 1,
                   Add(acc, Mul(h[j + 1], Sub(One, Div(w0[i][j], C)))))

\* Signal transfer hidden -> net, from index i on
RefNet(w0, h, i) ==
    IF i >= N THEN <<>>
    ELSE <<RefNetRow(w0, h, i, 0, Zero)>> \o RefNet(w0, h, i + 1)

\* Signal transfer to the output, from index i on
RefOut(h, n, i) ==
    IF i >= N THEN <<>>
    ELSE <<Mul(h[i + 1], Sub(One, Div(n[i + 1], C)))>> \o RefOut(h, n, i + 1)

\* Adaptation of row i of w, from index j on
RefWRow(w0, h, o, i, j) ==
    IF j >= N THEN <<>>
    ELSE <<Add(w0[i][j],
               Mul(Mul(Sub(h[i + 1], o[i + 1]), Sub(One, Div(w0[i][j], C))),
                   h[j + 1]))>>
         \o RefWRow(w0, h, o, i, j + 1)

\* Adaptation of w, from row i on
RefW(w0, h, o, i) ==
    IF i >= N THEN <<>>
    ELSE <<RefWRow(w0, h, o, i, 0)>> \o RefW(w0, h, o, i + 1)

\* The array x holds the elements of the sequence ref
SameVector(x, ref) == \A i \in Idx : x[i] = ref[i + 1]
SameMatrix(x, ref) == \A i \in Idx : \A j \in Idx : x[i][j] = ref[i + 1][j + 1]

\* The arrays of the next state are the reference with output o
MatchesOut(w0, h, o) == SameVector(mOut', o) /\ SameMatrix(w', RefW(w0, h, o, 0))
\* ... with net input n
MatchesNet(w0, h, n) == SameVector(net', n) /\ MatchesOut(w0, h, RefOut(h, n, 0))
\* ... with hidden layer h
MatchesHidden(s, v0, w0, h) ==
    /\ SameVector(mHidden', h)
    /\ SameVector(v', RefV(s, v0, h, 0))
    /\ MatchesNet(w0, h, RefNet(w0, h, 0))
\* The arrays of the next state are the reference of the scaled input s
MatchesReference(s, v0, w0) == MatchesHidden(s, v0, w0, RefHidden(s, v0, 0))

\* C3: an update step, inside run() or called directly, leaves mHidden, v,
\* net, mOut and w equal to the phase-by-phase reference computed from the
\* scaled input and from the values v and w had before the step.
C3_PhaseOrder ==
    [][/\ PassDone => MatchesReference(Interp(training[pos + 1]), v, w)
       /\ (DirectStep /\ exc' = "none") =>
             \E x \in StepInputs : MatchesReference(Interp(x), v, w)]_vars

\* Two update steps of one run have completed on weights that differ from
\* entry to entry.
C3_Witness ==
    /\ cnt = 2
    /\ exc = "none"
    /\ C = FromInt(2)
    /\ \E i \in Idx : \E j \in Idx : w[i][j] # w[0][0] /\ w[i][j] # InitWeight

\* C4: whenever run() returns, after an early stop as after the last sample,
\* the stored tree is the minimum spanning tree of w as the last update step
\* left it, and no other step of run() stores a tree.
C4_TreeAfterLoop ==
    [][IF RunReturns
       THEN "mst" \in attrs' /\ \E t \in TieOrders : mst' = MinimumSpanningTree(w', t)
       ELSE mst' = mst /\ ("mst" \in attrs' <=> "mst" \in attrs)]_vars

\* A run that stopped early has returned with the tree of w stored.
C4_Witness ==
    /\ pc = "idle"
    /\ exc = "none"
    /\ "mst" \in attrs
    /\ cnt >= 1
    /\ cnt < Len(training)
    /\ \E t \in TieOrders : mst = MinimumSpanningTree(w, t)
    /\ \E i \in Idx : \E j \in Idx : mst[i][j] # Zero

\* C5: createTrainingCorrelated fails only on a model with N < 6 (on N = 6 it
\* completes without error).
C5_FailsOnlyBelowSix == exc \in {"ValueError", "IndexError"} => N < 6

\* C6: whenever the model holds training vectors, the label sequence has
\* exactly N entries, parallel to the N components of every training vector.
C6_LabelCount ==
    Len(training) > 0 =>
        /\ Len(label) = N
        /\ \A k \in 1 .. Len(training) : DOMAIN training[k] = Idx

\* C7: after a run() that an update step aborted, printTree and draw report no
\* tree.
C7_NoTreeAfterFailedRun ==
    [][(exc \in StepErrors /\ pos = cnt + 1) =>
          /\ PrintTree => Len(printed') <= 1
          /\ Draw => (exc' # "none" /\ drawn' = drawn)]_vars

\* The entries of corr that are not zero
NonZero(corr) == {e \in Idx \X Idx : corr[e[1]][e[2]] # Zero}

\* Entry e comes before entry f in row-major order
RowMajorBefore(e, f) == e[1] < f[1] \/ (e[1] = f[1] /\ e[2] < f[2])

\* rows lists, in row-major order, one triple (label[i], label[j], corr[i][j])
\* for every non-zero entry of corr and nothing else
ListsTree(rows, corr) ==
    /\ Len(rows) = Cardinality(NonZero(corr))
    /\ \A e \in NonZero(corr) :
          rows[1 + Cardinality({f \in NonZero(corr) : RowMajorBefore(f, e)})]
             = <<label[e[1] + 1], label[e[2] + 1], corr[e[1]][e[2]]>>

\* C8: with a tree stored, printTree emits (and draw collects) exactly one
\* triple per non-zero entry of the stored tree, in row-major order, whatever
\* was emitted before, and leaves v, w, cnt, the tree and the labels unchanged.
C8_Summary ==
    [][/\ (PrintTree /\ "mst" \in attrs) =>
             /\ printed'[1] = <<"Total number of runs", cnt>>
             /\ ListsTree(Tail(printed'), mst)
             /\ UNCHANGED <<v, w, cnt, mst, label>>
       /\ (Draw /\ "mst" \in attrs) =>
             /\ ListsTree(drawn', mst)
             /\ UNCHANGED <<v, w, cnt, mst, label>>]_vars

\* printTree and draw have both reported the tree of a trained model.
C8_Witness ==
    /\ "mst" \in attrs
    /\ cnt >= 1
    /\ Len(printed) = N
    /\ drawn = Tail(printed)
    /\ ListsTree(drawn, mst)
    /\ \E i \in Idx : w[i][i] # InitWeight

\* C9: for C > 1 the contraction factors stay within [0, 1], that is
\* 0 <= v[i] <= C and 0 <= w[i][j] <= C.
C9_FactorsBounded ==
    Less(One, C) =>
        /\ \A i \in Idx : ~Less(v[i], Zero) /\ ~Less(C, v[i])
        /\ \A i \in Idx : \A j \in Idx : ~Less(w[i][j], Zero) /\ ~Less(C, w[i][j])

\* All elements of x are equal
AllEqual(x) == ~Less(VecMin(x, N - 1), VecMax(x, N - 1))

\* C10: runOnce on an input vector whose elements are all equal raises before
\* v or w is changed.
C10_DegenerateRejected ==
    [][(pc = "run" /\ AllEqual(training[pos + 1])) =>
          /\ exc' \in StepErrors
          /\ v' = v
          /\ w' = w]_vars

====
